---- MODULE Spec2Model ----
(***************************************************************************)
(* Model of the todo repository of nathansiegfrid/todolist-go              *)
(* (src/service/todo/repository.go): the filtered read path (GetAll, Get), *)
(* Create, and the transactional Update / Delete protocol                  *)
(*   BeginTx -> SELECT ... FOR UPDATE -> ownership check -> UPDATE/DELETE  *)
(*   -> Commit, with the deferred Rollback on every error return.          *)
(*                                                                         *)
(* The database is modelled at READ COMMITTED: `store` is the committed    *)
(* table, a transaction's own UPDATE/DELETE is buffered in `txw` until its *)
(* Commit, and a row lock taken by FOR UPDATE is held until the            *)
(* transaction ends.  Every database call can also fail with a storage     *)
(* error.  The wall clock is the variable `now`; every call of time.Now()  *)
(* returns a reading strictly later than every earlier reading (the reads  *)
(* that end up in one row are always separated by a database round trip).  *)
(***************************************************************************)
EXTENDS Integers, Sequences, FiniteSets, TLC

\* ------------------------------------------------------------ bounds
\* number of uuid.New() results drawn in one behaviour
MaxIds == 2
\* number of time.Now() readings in one behaviour
MaxTime == 3
\* instants per calendar day (the ::date cast); texts, priorities and
\* instants are small integers, texts ordered as the database orders text
DayLen == 2

Procs == {1, 2}                \* concurrent request workers
Users == {"u1", "u2"}          \* authenticated identities (uuid.UUID)
NilUser == "nil"               \* uuid.Nil
Ids == 1..MaxIds               \* record IDs (uuid.UUID)
\* SQL NULL / Go nil *time.Time
Null == -1
\* no transaction holds the row lock
NoProc == 0

\* ------------------------------------------------------------ data
\* FieldFilter / optional field: {Defined, Value}
Unset == [Defined |-> FALSE]
Set(v) == [Defined |-> TRUE, Value |-> v]

NoRow == [absent |-> TRUE]     \* sql.ErrNoRows / empty table slot
NoWrite == [none |-> TRUE]     \* transaction with no buffered statement

\* the zero value of Todo that a failed Scan leaves behind
ZeroTodo ==
  [id |-> 0, user_id |-> NilUser, subject |-> 0, description |-> 0, priority |-> 0,
   due_date |-> Null, completed |-> FALSE, created_at |-> 0, updated_at |-> 0]

VARIABLES
  store,       \* committed table todo: Ids -> row or NoRow
  lockHolder,  \* row lock of each ID: the worker whose transaction holds it, or NoProc
  pc,          \* position of each worker inside Update / Delete
  op,          \* the call each worker is executing: kind, id, caller, patch
  todo,        \* each worker's local *Todo
  txw,         \* each worker's buffered (uncommitted) write
  ret,         \* what each worker's last call returned
  now,         \* latest reading of the clock
  nextId,      \* how many IDs uuid.New() has produced
  rd           \* the last read (Get / GetAll) and what it returned

vars == <<store, lockHolder, pc, op, todo, txw, ret, now, nextId, rd>>

NoOp == [kind |-> "none"]
NoRead == [kind |-> "none"]

Init ==
  /\ store = [i \in Ids |-> NoRow]
  /\ lockHolder = [i \in Ids |-> NoProc]
  /\ pc = [p \in Procs |-> "idle"]
  /\ op = [p \in Procs |-> NoOp]
  /\ todo = [p \in Procs |-> NoRow]
  /\ txw = [p \in Procs |-> NoWrite]
  /\ ret = [p \in Procs |-> "none"]
  /\ now = 0
  /\ nextId = 0
  /\ rd = NoRead

\* ------------------------------------------------------------ read path
Min(a, b) == IF a < b THEN a ELSE b

\* the ::date cast of a timestamp
DateOf(t) == t \div DayLen

EmptyQuery == [where |-> <<[kind |-> "true"]>>, args |-> <<>>, argIndex |-> 1]

\* the equality branch without its argIndex++
AddEqNoIncrement(b, v, col) ==
  IF v.Defined
  THEN [where |-> Append(b.where, [kind |-> "eq", col |-> col, arg |-> b.argIndex]),
        args |-> Append(b.args, v.Value),
        argIndex |-> b.argIndex]
  ELSE b

\* one  if v.Defined { where = append(..."col = $n"); args = append(...); argIndex++ }
AddEq(b, v, col) ==
  IF v.Defined
  THEN [where |-> Append(b.where, [kind |-> "eq", col |-> col, arg |-> b.argIndex]),
        args |-> Append(b.args, v.Value),
        argIndex |-> b.argIndex + 1]
  ELSE b

\* the due-date branch with a null value taken for no value
AddDueDateSkipNull(b, v) ==
  IF v.Defined /\ v.Value # Null
  THEN [where |-> Append(b.where, [kind |-> "dateeq", col |-> "due_date", arg |-> b.argIndex]),
        args |-> Append(b.args, v.Value),
        argIndex |-> b.argIndex + 1]
  ELSE b

\* the due-date branch: IS NULL binds nothing, a date binds one parameter
AddDueDate(b, v) ==
  IF v.Defined
  THEN IF v.Value = Null
       THEN [b EXCEPT !.where = Append(@, [kind |-> "isnull", col |-> "due_date"])]
       ELSE [where |-> Append(b.where, [kind |-> "dateeq", col |-> "due_date", arg |-> b.argIndex]),
             args |-> Append(b.args, v.Value),
             argIndex |-> b.argIndex + 1]
  ELSE b

\* " LIMIT %d " / " OFFSET %d ": rendered only when the value is > 0
RenderClause(n) == IF n > 0 THEN [emitted |-> TRUE, n |-> n] ELSE [emitted |-> FALSE]

BuildQuery(filter) ==
  LET b1 == AddEq(EmptyQuery, filter.ID, "id")
      b2 == AddEq(b1, filter.UserID, "user_id")
      b3 == AddEq(b2, filter.Priority, "priority")
      b4 == AddDueDate(b3, filter.DueDate)
      b5 == AddEq(b4, filter.Completed, "completed")
  IN [where |-> b5.where, args |-> b5.args, argIndex |-> b5.argIndex,
      limit |-> RenderClause(filter.Limit), offset |-> RenderClause(filter.Offset)]

\* SQL evaluation of one WHERE condition on a row
ClauseHolds(c, row, args) ==
  CASE c.kind = "true" -> TRUE
    [] c.kind = "eq" -> row[c.col] = args[c.arg]
    [] c.kind = "isnull" -> row[c.col] = Null
    [] c.kind = "dateeq" -> row[c.col] # Null /\ DateOf(row[c.col]) = DateOf(args[c.arg])

\* rows of the table satisfying the conjunction of the WHERE conditions
SelectWhere(st, q) ==
  {st[i] : i \in {j \in Ids : st[j] # NoRow /\
                   \A k \in 1..Len(q.where) : ClauseHolds(q.where[k], st[j], q.args)}}

\* ORDER BY description ASC: every order of the rows the sort key allows
OrderByKey(row) == row.description

Ordered(S) ==
  {s \in [1..Cardinality(S) -> S] :
     /\ \A i, j \in 1..Cardinality(S) : i # j => s[i] # s[j]
     /\ \A i, j \in 1..Cardinality(S) : i < j => OrderByKey(s[i]) <= OrderByKey(s[j])}

\* OFFSET then LIMIT
Paginate(s, q) ==
  LET off == IF q.offset.emitted THEN q.offset.n ELSE 0
      rest == SubSeq(s, off + 1, Len(s))
  IN IF q.limit.emitted THEN SubSeq(rest, 1, Min(q.limit.n, Len(rest))) ELSE rest

\* every result GetAll can return for a filter on a committed table
GetAllResults(st, filter) ==
  LET q == BuildQuery(filter) IN {Paginate(s, q) : s \in Ordered(SelectWhere(st, q))}

\* SELECT ... WHERE id = $1 and the Scan of its row
SelectById(st, id) ==
  IF \E i \in Ids : st[i] # NoRow /\ st[i].id = id
  THEN st[CHOOSE i \in Ids : st[i] # NoRow /\ st[i].id = id]
  ELSE NoRow

\* a dirty read: the SELECT sees the row an open transaction has written
GetResultDirty(st, id) ==
  IF \E p \in Procs : txw[p] # NoWrite /\ txw[p].id = id /\ txw[p].row # NoRow
  THEN [err |-> "nil",
        rows |-> <<txw[CHOOSE p \in Procs : txw[p] # NoWrite /\ txw[p].id = id].row>>]
  ELSE IF SelectById(st, id) = NoRow THEN [err |-> "NotFound", rows |-> <<>>]
       ELSE [err |-> "nil", rows |-> <<SelectById(st, id)>>]

GetResult(st, id) ==
  LET row == SelectById(st, id)
  IN IF row = NoRow THEN [err |-> "NotFound", rows |-> <<>>]
     ELSE [err |-> "nil", rows |-> <<row>>]

\* ------------------------------------------------------------ write path: helpers
\* the ID of the first record given to every record
NewUUIDFixed(n) == 1

\* uuid.New(): an ID no earlier call has produced
NewUUID(n) == n + 1

\* time.Now(): a reading later than every earlier reading
TimeNow(clock) == clock + 1

\* INSERT INTO todo (...) VALUES (...)
InsertRow(st, row) == [st EXCEPT ![row.id] = row]

\* the stamping that keeps the owner the caller's record came with
StampNewInputOwner(input, id, caller, t) ==
  [id |-> id, user_id |-> input.user_id, subject |-> input.subject,
   description |-> input.description, priority |-> input.priority,
   due_date |-> input.due_date, completed |-> input.completed,
   created_at |-> t, updated_at |-> t]

\* Create's stamping of the caller's record
StampNew(input, id, caller, t) ==
  [id |-> id, user_id |-> caller, subject |-> input.subject,
   description |-> input.description, priority |-> input.priority,
   due_date |-> input.due_date, completed |-> input.completed,
   created_at |-> t, updated_at |-> t]

\* the Scan error of a missing row dropped: the zero Todo is used
ScanForUpdateNoErr(row) ==
  IF row = NoRow THEN [err |-> "nil", todo |-> ZeroTodo]
  ELSE [err |-> "nil", todo |-> row]

\* row.Scan of the locked SELECT: ErrNoRows becomes ErrNotFound
ScanForUpdate(row) ==
  IF row = NoRow THEN [err |-> "NotFound", todo |-> ZeroTodo]
  ELSE [err |-> "nil", todo |-> row]

\* the locked read without FOR UPDATE: no row lock is taken
LockRowNoLock(lh, id, p) == lh

\* a lock of the whole table in place of the row lock
LockRowTable(lh, id, p) == [i \in Ids |-> p]

\* FOR UPDATE: the row lock goes to the reading transaction
LockRow(lh, id, p) == [lh EXCEPT ![id] = p]

\* end of a transaction (Commit or Rollback): its row locks are released
ReleaseLocks(lh, p) == [i \in Ids |-> IF lh[i] = p THEN NoProc ELSE lh[i]]

\* the ownership check left out
OwnerMismatchNever(t, caller) == FALSE

\* todo.UserID != service.UserIDFromContext(ctx)
OwnerMismatch(t, caller) == t.user_id # caller

\* the description branch reading the subject field of the patch
ApplyPatchMixed(t, u) ==
  [t EXCEPT !.subject = IF u.Subject.Defined THEN u.Subject.Value ELSE @,
            !.description = IF u.Subject.Defined THEN u.Subject.Value ELSE @,
            !.priority = IF u.Priority.Defined THEN u.Priority.Value ELSE @,
            !.due_date = IF u.DueDate.Defined THEN u.DueDate.Value ELSE @,
            !.completed = IF u.Completed.Defined THEN u.Completed.Value ELSE @]

\* the five  if v := update.X; v.Defined { todo.X = v.Value; updated = true }
ApplyPatch(t, u) ==
  [t EXCEPT !.subject = IF u.Subject.Defined THEN u.Subject.Value ELSE @,
            !.description = IF u.Description.Defined THEN u.Description.Value ELSE @,
            !.priority = IF u.Priority.Defined THEN u.Priority.Value ELSE @,
            !.due_date = IF u.DueDate.Defined THEN u.DueDate.Value ELSE @,
            !.completed = IF u.Completed.Defined THEN u.Completed.Value ELSE @]

\* `updated` set whatever the patch holds
UpdatedAlways(u) == TRUE

Updated(u) ==
  \/ u.Subject.Defined
  \/ u.Description.Defined
  \/ u.Priority.Defined
  \/ u.DueDate.Defined
  \/ u.Completed.Defined

\* the stamp of updated-at left out
StampUpdatedAtNot(t, clock) == t

\* todo.UpdatedAt = time.Now()
StampUpdatedAt(t, clock) == [t EXCEPT !.updated_at = clock]

\* UPDATE todo SET subject, description, priority, due_date, completed, updated_at
\* on the row the WHERE selects; the other columns keep the row's values
UpdateSet(cur, t) ==
  [cur EXCEPT !.subject = t.subject, !.description = t.description,
              !.priority = t.priority, !.due_date = t.due_date,
              !.completed = t.completed, !.updated_at = t.updated_at]

\* result.RowsAffected() of a statement with WHERE id = $n
RowsAffected(st, id) == Cardinality({i \in Ids : st[i] # NoRow /\ st[i].id = id})

\* a committed DELETE that leaves the row in the table
ApplyWriteSoftDelete(st, w) == IF w = NoWrite \/ w.row = NoRow THEN st ELSE [st EXCEPT ![w.id] = w.row]

\* tx.Commit(): the buffered statement becomes the committed row
ApplyWrite(st, w) == IF w = NoWrite THEN st ELSE [st EXCEPT ![w.id] = w.row]

\* calls whose time.Now() reading is still to come
AwaitingClock ==
  Cardinality({q \in Procs : /\ pc[q] \in {"lock", "write"}
                             /\ op[q].kind = "update"
                             /\ Updated(op[q].patch)})

\* the call returns: its locals are gone, the caller has the result
Return(p, result) ==
  /\ pc' = [pc EXCEPT ![p] = "idle"]
  /\ ret' = [ret EXCEPT ![p] = result]
  /\ op' = [op EXCEPT ![p] = NoOp]
  /\ todo' = [todo EXCEPT ![p] = NoRow]

\* return err without the deferred tx.Rollback(): the transaction stays open
ReturnErrorNoRollback(p, err) ==
  /\ Return(p, err)
  /\ UNCHANGED <<txw, lockHolder>>

\* return err with the deferred tx.Rollback(): nothing buffered survives and
\* the transaction's locks are released
ReturnError(p, err) ==
  /\ Return(p, err)
  /\ txw' = [txw EXCEPT ![p] = NoWrite]
  /\ lockHolder' = ReleaseLocks(lockHolder, p)

\* ------------------------------------------------------------ write path: actions
\* Repository.Create
Create(p, caller, input) ==
  /\ pc[p] = "idle"
  /\ nextId < MaxIds
  /\ now + AwaitingClock < MaxTime
  /\ LET id == NewUUID(nextId)
         t == TimeNow(now)
         row == StampNew(input, id, caller, t)
     IN /\ nextId' = id
        /\ now' = t
        /\ \E dbok \in BOOLEAN :
             IF dbok
             THEN /\ store' = InsertRow(store, row)
                  /\ Return(p, "ok")
             ELSE /\ store' = store
                  /\ Return(p, "StorageFailure")
  /\ UNCHANGED <<lockHolder, txw>>
  /\ rd' = NoRead

\* Repository.Update / Repository.Delete up to BeginTx
BeginCall(p, kind, id, caller, u) ==
  /\ pc[p] = "idle"
  /\ (kind = "update" /\ Updated(u)) => now + AwaitingClock < MaxTime
  /\ \E dbok \in BOOLEAN :
       IF dbok
       THEN /\ pc' = [pc EXCEPT ![p] = "lock"]
            /\ ret' = [ret EXCEPT ![p] = "none"]
            /\ op' = [op EXCEPT ![p] = [kind |-> kind, id |-> id, caller |-> caller, patch |-> u]]
            /\ todo' = todo
       ELSE Return(p, "StorageFailure")
  /\ UNCHANGED <<store, lockHolder, txw, now, nextId>>
  /\ rd' = NoRead

UpdateCall(p, id, caller, u) == BeginCall(p, "update", id, caller, u)

NoPatch == [Subject |-> Unset, Description |-> Unset, Priority |-> Unset,
            DueDate |-> Unset, Completed |-> Unset]

DeleteCall(p, id, caller) == BeginCall(p, "delete", id, caller, NoPatch)

\* getTodoForUpdate, and the  if err != nil { return err }  of its caller
GetTodoForUpdate(p) ==
  /\ pc[p] = "lock"
  /\ \E dbok \in BOOLEAN :
       IF ~dbok
       THEN ReturnError(p, "StorageFailure")
       ELSE LET row == SelectById(store, op[p].id)
                r == ScanForUpdate(row)
            IN /\ row # NoRow => lockHolder[op[p].id] = NoProc
               /\ IF r.err # "nil"
                  THEN ReturnError(p, r.err)
                  ELSE /\ lockHolder' = IF row # NoRow
                                        THEN LockRow(lockHolder, op[p].id, p)
                                        ELSE lockHolder
                       /\ todo' = [todo EXCEPT ![p] = r.todo]
                       /\ pc' = [pc EXCEPT ![p] = "write"]
                       /\ UNCHANGED <<ret, txw, op>>
  /\ UNCHANGED <<store, now, nextId>>
  /\ rd' = NoRead

\* a statement WHERE id = $n of transaction p: it needs the row lock of the
\* row it writes (already p's after FOR UPDATE) and buffers the new row
ExecWhereId(p, id, newRow) ==
  \E dbok \in BOOLEAN :
    IF ~dbok
    THEN ReturnError(p, "StorageFailure")
    ELSE IF RowsAffected(store, id) = 0
         THEN ReturnError(p, "NotFound")
         ELSE /\ lockHolder[id] \in {NoProc, p}
              /\ lockHolder' = LockRow(lockHolder, id, p)
              /\ txw' = [txw EXCEPT ![p] = [id |-> id, row |-> newRow]]
              /\ pc' = [pc EXCEPT ![p] = "commit"]
              /\ UNCHANGED <<ret, op>>

\* updateTodo after the locked read: ownership check, merge of the patch,
\* stamp, UPDATE
ExecUpdate(p) ==
  /\ pc[p] = "write"
  /\ op[p].kind = "update"
  /\ IF OwnerMismatch(todo[p], op[p].caller)
     THEN /\ ReturnError(p, "PermissionDenied")
          /\ now' = now
     ELSE LET merged == ApplyPatch(todo[p], op[p].patch)
          IN IF ~Updated(op[p].patch)
             THEN /\ todo' = [todo EXCEPT ![p] = merged]
                  /\ pc' = [pc EXCEPT ![p] = "commit"]
                  /\ UNCHANGED <<ret, op, txw, lockHolder, now>>
             ELSE LET t == TimeNow(now)
                      stamped == StampUpdatedAt(merged, t)
                      cur == SelectById(store, op[p].id)
                  IN /\ now' = t
                     /\ ExecWhereId(p, op[p].id,
                                    IF cur = NoRow THEN NoRow ELSE UpdateSet(cur, stamped))
                     /\ pc'[p] = "commit" => todo' = [todo EXCEPT ![p] = stamped]
  /\ UNCHANGED <<store, nextId>>
  /\ rd' = NoRead

\* deleteTodo after the locked read: ownership check, DELETE
ExecDelete(p) ==
  /\ pc[p] = "write"
  /\ op[p].kind = "delete"
  /\ IF OwnerMismatch(todo[p], op[p].caller)
     THEN ReturnError(p, "PermissionDenied")
     ELSE /\ ExecWhereId(p, op[p].id, NoRow)
          /\ pc'[p] = "commit" => todo' = todo
  /\ UNCHANGED <<store, now, nextId>>
  /\ rd' = NoRead

\* return tx.Commit()
Commit(p) ==
  /\ pc[p] = "commit"
  /\ txw' = [txw EXCEPT ![p] = NoWrite]
  /\ lockHolder' = ReleaseLocks(lockHolder, p)
  /\ \E dbok \in BOOLEAN :
       IF dbok
       THEN /\ store' = ApplyWrite(store, txw[p])
            /\ Return(p, "ok")
       ELSE /\ store' = store
            /\ Return(p, "StorageFailure")
  /\ UNCHANGED <<now, nextId>>
  /\ rd' = NoRead

\* ------------------------------------------------------------ read path: actions
\* a read that failed in the database: the caller has only the error
ReadFailed(kind) == [kind |-> kind, err |-> "StorageFailure", rows |-> <<>>]

\* Repository.Get: one SELECT on the committed table
Get(caller, id) ==
  /\ \E dbok \in BOOLEAN :
       rd' = IF dbok
             THEN [kind |-> "get", caller |-> caller, id |-> id] @@ GetResult(store, id)
             ELSE ReadFailed("get")
  /\ UNCHANGED <<store, lockHolder, pc, op, todo, txw, ret, now, nextId>>

\* Repository.GetAll: one SELECT on the committed table
GetAll(caller, filter) ==
  /\ \E dbok \in BOOLEAN :
       IF dbok
       THEN \E rows \in GetAllResults(store, filter) :
              rd' = [kind |-> "list", caller |-> caller, filter |-> filter,
                     err |-> "nil", rows |-> rows]
       ELSE rd' = ReadFailed("list")
  /\ UNCHANGED <<store, lockHolder, pc, op, todo, txw, ret, now, nextId>>

\* ------------------------------------------------------------ inputs
Patch(s, d, pr, du, c) ==
  [Subject |-> s, Description |-> d, Priority |-> pr, DueDate |-> du, Completed |-> c]

\* the patches drawn: the empty patch, two patches of one field each, and a
\* patch of the three other fields with an explicit null due-date
Patches ==
  {NoPatch,
   Patch(Set(2), Unset, Unset, Unset, Unset),
   Patch(Unset, Unset, Unset, Unset, Set(TRUE)),
   Patch(Unset, Set(2), Set(2), Set(Null), Unset)}

NewTodo(s, d, pr, du, c) ==
  [subject |-> s, description |-> d, priority |-> pr, due_date |-> du, completed |-> c]

NewTodos == {NewTodo(1, 1, 1, 0, FALSE)}

Filter(i, u, pr, du, c, l, o) ==
  [ID |-> i, UserID |-> u, Priority |-> pr, DueDate |-> du, Completed |-> c,
   Limit |-> l, Offset |-> o]

\* the filters drawn by the read specification: the due-date predicate
\* unset, null and a date, alone and beside each other predicate, and the
\* pagination fields
Filters ==
  {Filter(Unset, Unset, Unset, du, Unset, 0, 0) : du \in {Unset, Set(Null), Set(1)}}
  \cup {Filter(Unset, Set("u1"), Unset, du, Unset, 0, 0) : du \in {Unset, Set(Null)}}
  \cup {Filter(Set(1), Unset, Set(2), du, Set(TRUE), 0, 0) : du \in {Unset, Set(Null)}}
  \cup {Filter(Unset, Unset, Unset, Unset, Unset, 1, 0),
        Filter(Unset, Unset, Unset, Set(Null), Unset, 1, 1),
        Filter(Unset, Unset, Unset, Unset, Unset, 0, 1)}

\* the records and patches drawn by the read specification
NewTodosRead == {NewTodo(1, 2, 1, 0, FALSE), NewTodo(2, 1, 2, Null, FALSE)}

PatchesRead ==
  {Patch(Unset, Unset, Unset, Set(Null), Unset),
   Patch(Unset, Set(1), Unset, Set(2), Set(TRUE))}

ReadProcs == {1}

\* the identities whose Update / Delete calls and whose GetAll calls the
\* read specification draws; Create and Get are drawn for both users
Writers == {"u1"}

Listers == {"u2"}

\* ------------------------------------------------------------ specification
\* two workers mutating concurrently
Next ==
  \/ \E p \in Procs, caller \in Users, input \in NewTodos : Create(p, caller, input)
  \/ \E p \in Procs, id \in Ids, caller \in Users, u \in Patches : UpdateCall(p, id, caller, u)
  \/ \E p \in Procs, id \in Ids, caller \in Users : DeleteCall(p, id, caller)
  \/ \E p \in Procs : GetTodoForUpdate(p)
  \/ \E p \in Procs : ExecUpdate(p)
  \/ \E p \in Procs : ExecDelete(p)
  \/ \E p \in Procs : Commit(p)

Spec == Init /\ [][Next]_vars

\* one worker mutating, reads interleaved with its steps
NextRead ==
  \/ \E p \in ReadProcs, caller \in Users, input \in NewTodosRead : Create(p, caller, input)
  \/ \E p \in ReadProcs, id \in Ids, caller \in Writers, u \in PatchesRead : UpdateCall(p, id, caller, u)
  \/ \E p \in ReadProcs, id \in Ids, caller \in Writers : DeleteCall(p, id, caller)
  \/ \E p \in ReadProcs : GetTodoForUpdate(p)
  \/ \E p \in ReadProcs : ExecUpdate(p)
  \/ \E p \in ReadProcs : ExecDelete(p)
  \/ \E p \in ReadProcs : Commit(p)
  \/ \E caller \in Users, id \in Ids : Get(caller, id)
  \/ \E caller \in Listers, filter \in Filters : GetAll(caller, filter)

SpecRead == Init /\ [][NextRead]_vars

\* the inputs drawn when two workers mutate while reads are taken: one owner
\* creating, both users calling Update and Delete, one patch, one filter
Creators == {"u1"}

\* a whole Todo as the caller of Create passes it, with an ID, an owner that
\* is not the caller, and timestamps of its own
NewTodosMixed ==
  {[id |-> 2, user_id |-> "u2", subject |-> 1, description |-> 1, priority |-> 1,
    due_date |-> 0, completed |-> FALSE, created_at |-> 0, updated_at |-> 0]}

PatchesMixed == {Patch(Unset, Unset, Unset, Unset, Set(TRUE))}

FiltersMixed == {Filter(Unset, Unset, Unset, Unset, Unset, 0, 0)}

\* two workers mutating concurrently, reads interleaved with their steps
NextMixed ==
  \/ \E p \in Procs, caller \in Creators, input \in NewTodosMixed : Create(p, caller, input)
  \/ \E p \in Procs, id \in Ids, caller \in Users, u \in PatchesMixed : UpdateCall(p, id, caller, u)
  \/ \E p \in Procs, id \in Ids, caller \in Users : DeleteCall(p, id, caller)
  \/ \E p \in Procs : GetTodoForUpdate(p)
  \/ \E p \in Procs : ExecUpdate(p)
  \/ \E p \in Procs : ExecDelete(p)
  \/ \E p \in Procs : Commit(p)
  \/ \E caller \in Users, id \in Ids : Get(caller, id)
  \/ \E caller \in Listers, filter \in FiltersMixed : GetAll(caller, filter)

SpecMixed == Init /\ [][NextMixed]_vars

\* one step of worker p's Update / Delete transaction after BeginTx
Step(p) == GetTodoForUpdate(p) \/ ExecUpdate(p) \/ ExecDelete(p) \/ Commit(p)

\* a step of the transaction in which the database answers
Answered(p) == Step(p) /\ ret'[p] # "StorageFailure"

\* two workers mutating, one owner creating, one patch
NextLive ==
  \/ \E p \in Procs, caller \in Creators, input \in NewTodos : Create(p, caller, input)
  \/ \E p \in Procs, id \in Ids, caller \in Users, u \in PatchesMixed : UpdateCall(p, id, caller, u)
  \/ \E p \in Procs, id \in Ids, caller \in Users : DeleteCall(p, id, caller)
  \/ \E p \in Procs : GetTodoForUpdate(p)
  \/ \E p \in Procs : ExecUpdate(p)
  \/ \E p \in Procs : ExecDelete(p)
  \/ \E p \in Procs : Commit(p)

\* every worker is scheduled and the database answers a statement that can
\* be answered; a transaction waiting for a row lock is served when the lock
\* is released (the lock queue of the database), so the fairness is strong.
\* Storage failures may happen at any step but are not forced.
SpecLive == Init /\ [][NextLive]_vars /\ \A p \in Procs : SF_vars(Answered(p))

\* every shape of filter: each field unset or set to one value, the due-date
\* also set to null, limit and offset negative, zero and positive
Opt(S) == {Unset} \cup {Set(v) : v \in S}

AllFilters ==
  {Filter(i, u, pr, du, c, l, o) :
     i \in Opt({1}), u \in Opt(Creators), pr \in Opt({2}), du \in Opt({Null, 0}),
     c \in Opt({FALSE}), l \in {-1, 0, 1}, o \in {-1, 0, 1}}

\* records created by one worker and listed under every filter
NextFilter ==
  \/ \E p \in ReadProcs, caller \in Creators, input \in NewTodosRead : Create(p, caller, input)
  \/ \E caller \in Listers, filter \in AllFilters : GetAll(caller, filter)

SpecFilter == Init /\ [][NextFilter]_vars

\* ------------------------------------------------------------ properties
\* the step in which worker p's call returns
Returning(p) == pc[p] # "idle" /\ pc'[p] = "idle"

Mutation(p) == op[p].kind \in {"update", "delete"}

\* a patch with every field unset
PatchIsEmpty(u) == \A f \in DOMAIN u : ~u[f].Defined

\* C1: no lost update.  Two Update / Delete calls are never both past their
\* locked read of the same record; what a call read under the lock is still
\* the committed record while it works on it; the row it has buffered is its
\* patch merged into the committed record; and a committing Update replaces
\* the committed record by its patch merged into it.
C1_LockedReadIsCurrent ==
  \A p \in Procs :
    /\ pc[p] = "write" => todo[p] = store[op[p].id]
    /\ (pc[p] = "commit" /\ op[p].kind = "update" /\ txw[p] # NoWrite) =>
         /\ store[op[p].id] # NoRow
         /\ txw[p].row = StampUpdatedAt(ApplyPatch(store[op[p].id], op[p].patch),
                                        txw[p].row.updated_at)
    /\ \A q \in Procs :
         (p # q /\ pc[p] \in {"write", "commit"} /\ pc[q] \in {"write", "commit"})
           => op[p].id # op[q].id

C1_CommitAppliesInLockOrder ==
  \A p \in Procs :
    (pc[p] = "commit" /\ op[p].kind = "update" /\ ~PatchIsEmpty(op[p].patch)
       /\ Returning(p) /\ ret'[p] = "ok") =>
      /\ store[op[p].id] # NoRow
      /\ store'[op[p].id] = StampUpdatedAt(ApplyPatch(store[op[p].id], op[p].patch),
                                           store'[op[p].id].updated_at)

C1_NoLostUpdate == [](C1_LockedReadIsCurrent) /\ [][C1_CommitAppliesInLockOrder]_vars

\* a second Update has read, under the lock, a record that an earlier Update
\* of the other worker committed
C1_Witness ==
  \E p, q \in Procs :
    /\ p # q
    /\ pc[p] = "write" /\ op[p].kind = "update" /\ ~PatchIsEmpty(op[p].patch)
    /\ ret[q] = "ok"
    /\ todo[p].updated_at > todo[p].created_at

\* C2: ownership isolation.  An Update or Delete by a caller who is not the
\* owner of the existing record returns PermissionDenied (a storage error if
\* the database failed first) and changes nothing; only a call made by the
\* record's owner ever changes or removes a stored record.
C2_NonOwnerReturn ==
  \A p \in Procs :
    (Mutation(p) /\ Returning(p) /\ store[op[p].id] # NoRow
       /\ store[op[p].id].user_id # op[p].caller) =>
      /\ ret'[p] \in {"PermissionDenied", "StorageFailure"}
      /\ pc[p] = "write" => ret'[p] = "PermissionDenied"
      /\ pc[p] # "commit"
      /\ store' = store

C2_OnlyOwnerChanges ==
  \A id \in Ids :
    (store[id] # NoRow /\ store'[id] # store[id]) =>
      \E p \in Procs :
        /\ Mutation(p) /\ op[p].id = id /\ op[p].caller = store[id].user_id
        /\ pc[p] = "commit" /\ ret'[p] = "ok"

C2_OwnershipIsolation == [][C2_NonOwnerReturn /\ C2_OnlyOwnerChanges]_vars

\* a call was refused with PermissionDenied and both users' records exist
C2_Witness ==
  /\ \E p \in Procs : ret[p] = "PermissionDenied"
  /\ \E i, j \in Ids : /\ store[i] # NoRow /\ store[j] # NoRow
                       /\ store[i].user_id # store[j].user_id

\* C3: not-found precedence.  An Update or Delete whose locked read finds no
\* record returns at once, with NotFound (a storage error if the database
\* failed), whoever the caller is, and the store is unchanged; PermissionDenied
\* and success are returned only by calls that found the record.
C3_MissingRowReturn ==
  \A p \in Procs :
    /\ (pc[p] = "lock" /\ store[op[p].id] = NoRow /\ pc'[p] # "lock") =>
         /\ Returning(p)
         /\ ret'[p] \in {"NotFound", "StorageFailure"}
         /\ store' = store
    /\ (Mutation(p) /\ Returning(p) /\ ret'[p] \in {"ok", "PermissionDenied"}) =>
         /\ store[op[p].id] # NoRow
         /\ todo[p].id = op[p].id
         /\ todo[p].user_id = store[op[p].id].user_id

C3_NotFoundPrecedence == [][C3_MissingRowReturn]_vars

\* both workers, calling as different users, were told NotFound
C3_Witness ==
  /\ \A p \in Procs : ret[p] = "NotFound"
  /\ \A id \in Ids : store[id] = NoRow

\* C4: patch sparsity.  An Update by the owner whose patch has every field
\* unset issues no write and reads no clock, then commits; it returns success
\* unless the database fails, and the stored table is unchanged by it.
C4_EmptyPatchStep ==
  \A p \in Procs :
    (op[p].kind = "update" /\ PatchIsEmpty(op[p].patch)) =>
      /\ (pc[p] = "write" /\ todo[p].user_id = op[p].caller /\ pc'[p] # "write") =>
           /\ pc'[p] = "commit"
           /\ txw'[p] = NoWrite
           /\ now' = now
           /\ store' = store
      /\ (pc[p] = "commit" /\ pc'[p] # "commit") =>
           /\ Returning(p)
           /\ ret'[p] \in {"ok", "StorageFailure"}
           /\ txw[p] = NoWrite
           /\ store' = store

C4_PatchSparsity == [][C4_EmptyPatchStep]_vars

\* the owner's Update with the empty patch is about to commit, nothing
\* buffered, the record as it was
C4_Witness ==
  \E p \in Procs :
    /\ pc[p] = "commit" /\ op[p].kind = "update" /\ PatchIsEmpty(op[p].patch)
    /\ txw[p] = NoWrite
    /\ store[op[p].id] = todo[p]

\* the record a patch must produce from the record read under the lock
PatchedRecord(t, u, at) ==
  [id |-> t.id, user_id |-> t.user_id, created_at |-> t.created_at,
   subject |-> IF u.Subject.Defined THEN u.Subject.Value ELSE t.subject,
   description |-> IF u.Description.Defined THEN u.Description.Value ELSE t.description,
   priority |-> IF u.Priority.Defined THEN u.Priority.Value ELSE t.priority,
   due_date |-> IF u.DueDate.Defined THEN u.DueDate.Value ELSE t.due_date,
   completed |-> IF u.Completed.Defined THEN u.Completed.Value ELSE t.completed,
   updated_at |-> at]

\* C5: partial patch.  The row an owner's Update with a set field writes is
\* the record read under the lock with exactly the set fields replaced by the
\* patch values (a set null due-date included) and updated-at set to a later
\* reading of the clock; ID, owner, created-at and the unset fields keep the
\* values read under the lock; and a successful commit stores exactly that row
\* and touches no other record.
C5_PatchStep ==
  \A p \in Procs :
    (op[p].kind = "update" /\ ~PatchIsEmpty(op[p].patch)) =>
      /\ (pc[p] = "write" /\ pc'[p] = "commit") =>
           /\ txw'[p] = [id |-> op[p].id,
                         row |-> PatchedRecord(todo[p], op[p].patch, now')]
           /\ now' > todo[p].updated_at
      /\ (pc[p] = "commit" /\ Returning(p) /\ ret'[p] = "ok") =>
           /\ txw[p] # NoWrite
           /\ store' = [store EXCEPT ![op[p].id] = txw[p].row]

C5_PartialPatch == [][C5_PatchStep]_vars

\* a record on which only `completed` was patched: completed is true,
\* updated-at is later than created-at, the other fields are as created
C5_Witness ==
  \E id \in Ids :
    /\ store[id] # NoRow
    /\ store[id].completed = TRUE
    /\ store[id].updated_at > store[id].created_at
    /\ \E input \in NewTodos :
         /\ store[id].subject = input.subject
         /\ store[id].description = input.description
         /\ store[id].priority = input.priority
         /\ store[id].due_date = input.due_date

\* C6: all-or-nothing.  A worker that is not inside a call holds no row lock
\* and has nothing buffered; an Update or Delete that returns an error leaves
\* the stored table as it was; and a stored record changes only in the commit
\* of a call that returns success, to the deletion or to the record with
\* every set field of the patch applied.
C6_NothingLeftBehind ==
  \A p \in Procs :
    pc[p] = "idle" => (txw[p] = NoWrite /\ \A id \in Ids : lockHolder[id] # p)

C6_ErrorChangesNothing ==
  /\ \A p \in Procs :
       (Mutation(p) /\ Returning(p) /\ ret'[p] # "ok") => store' = store
  /\ \A id \in Ids :
       (store[id] # NoRow /\ store'[id] # store[id]) =>
         \E p \in Procs :
           /\ Mutation(p) /\ op[p].id = id /\ pc[p] = "commit" /\ ret'[p] = "ok"
           /\ op[p].kind = "delete" => store'[id] = NoRow
           /\ op[p].kind = "update" =>
                store'[id] = PatchedRecord(store[id], op[p].patch, store'[id].updated_at)

C6_AllOrNothing == [](C6_NothingLeftBehind) /\ [][C6_ErrorChangesNothing]_vars

\* a call has returned a storage error and a record is stored and unlocked,
\* while the other worker's transaction has a write buffered
C6_Witness ==
  \E p, q \in Procs :
    /\ ret[p] = "StorageFailure" /\ pc[p] = "idle"
    /\ pc[q] = "commit" /\ txw[q] # NoWrite
    /\ \E id \in Ids : store[id] # NoRow /\ lockHolder[id] = NoProc

\* C8: ID and owner are immutable.  Every stored record carries the ID of its
\* slot, and no step changes the ID or the owner of a record that exists
\* before and after it.
C8_SlotId == \A id \in Ids : store[id] # NoRow => store[id].id = id

C8_KeepsIdAndOwner ==
  \A id \in Ids :
    (store[id] # NoRow /\ store'[id] # NoRow) =>
      /\ store'[id].id = store[id].id
      /\ store'[id].user_id = store[id].user_id
      /\ store'[id].created_at = store[id].created_at

C8_IdOwnerImmutable == [](C8_SlotId) /\ [][C8_KeepsIdAndOwner]_vars

\* two records of different owners, one of them updated since its creation
C8_Witness ==
  \E i, j \in Ids :
    /\ store[i] # NoRow /\ store[j] # NoRow
    /\ store[i].user_id # store[j].user_id
    /\ store[i].updated_at > store[i].created_at

\* C9: updated-at strictly increases.  Every committing Update with a set
\* field, and every step that changes a record that stays stored, leaves the
\* record with a strictly greater updated-at.
C9_UpdatedAtStep ==
  /\ \A p \in Procs :
       (pc[p] = "commit" /\ op[p].kind = "update" /\ ~PatchIsEmpty(op[p].patch)
          /\ Returning(p) /\ ret'[p] = "ok") =>
         /\ store[op[p].id] # NoRow /\ store'[op[p].id] # NoRow
         /\ store'[op[p].id].updated_at > store[op[p].id].updated_at
  /\ \A id \in Ids :
       (store[id] # NoRow /\ store'[id] # NoRow /\ store'[id] # store[id]) =>
         store'[id].updated_at > store[id].updated_at

C9_UpdatedAtIncreases == [][C9_UpdatedAtStep]_vars

\* a record updated twice: its updated-at is two readings after its creation
C9_Witness ==
  \E id \in Ids :
    store[id] # NoRow /\ store[id].updated_at > store[id].created_at + 1

\* ------------------------------------------------------------ properties of the reads
Range(seq) == {seq[i] : i \in 1..Len(seq)}

StoredRows == {store[i] : i \in {j \in Ids : store[j] # NoRow}}

\* C7: a record is only visible to its owner.  Every record a successful Get
\* or GetAll returns is owned by the caller of the read.
C7_ReadsOnlyOwn ==
  (rd.kind \in {"get", "list"} /\ rd.err = "nil") =>
    \A i \in 1..Len(rd.rows) : rd.rows[i].user_id = rd.caller

\* the predicates of a filter other than due-date, on a record
MatchesOthers(r, f) ==
  /\ f.ID.Defined => r.id = f.ID.Value
  /\ f.UserID.Defined => r.user_id = f.UserID.Value
  /\ f.Priority.Defined => r.priority = f.Priority.Value
  /\ f.Completed.Defined => r.completed = f.Completed.Value

\* how many rows a page holds when n rows match
PageLen(n, f) ==
  LET rest == IF f.Offset > 0 THEN (IF n > f.Offset THEN n - f.Offset ELSE 0) ELSE n
  IN IF f.Limit > 0 /\ f.Limit < rest THEN f.Limit ELSE rest

\* C10: null against unset due-date.  A successful GetAll returns each record
\* at most once; with due-date set(null) the unpaginated result is exactly the
\* stored records that match the other set predicates and have no due-date;
\* with due-date unset it is exactly the stored records that match the other
\* set predicates, whatever their due-date; a paginated result is a page of
\* those records.
C10_NullVsUnsetDueDate ==
  (rd.kind = "list" /\ rd.err = "nil" /\ rd.filter.DueDate \in {Unset, Set(Null)}) =>
    LET f == rd.filter
        expected == {r \in StoredRows :
                       /\ MatchesOthers(r, f)
                       /\ f.DueDate.Defined => r.due_date = Null}
    IN /\ Cardinality(Range(rd.rows)) = Len(rd.rows)
       /\ Range(rd.rows) \subseteq expected
       /\ Len(rd.rows) = PageLen(Cardinality(expected), f)

\* a list with due-date set(null) returned the one record without a due-date
\* and left out a stored record that has one
C10_Witness ==
  /\ rd.kind = "list" /\ rd.err = "nil"
  /\ rd.filter.DueDate = Set(Null)
  /\ rd.filter.Limit = 0 /\ rd.filter.Offset = 0
  /\ Len(rd.rows) = 1
  /\ \E r \in StoredRows : r.due_date # Null /\ MatchesOthers(r, rd.filter)

\* C11: a successful GetAll returns its records in ascending order of their
\* subject text, whatever the filter and the pagination.
C11_OrderedBySubject ==
  (rd.kind = "list" /\ rd.err = "nil") =>
    \A i, j \in 1..Len(rd.rows) : i < j => rd.rows[i].subject <= rd.rows[j].subject

\* C16: read-committed visibility of Get.  A successful Get returns the whole
\* committed record of its ID, which is never the row an open transaction has
\* buffered; and the committed record changes only in the successful commit
\* of an Update, in one step from the record before to that record with every
\* set field of the patch applied, while a call that returns an error (its
\* transaction rolled back or its commit failed) leaves it as it was.  So a
\* Get beside an Update returns the record before or the record after.
C16_GetReturnsCommitted ==
  (rd.kind = "get" /\ rd.err = "nil") =>
    /\ rd.rows = <<store[rd.id]>>
    /\ \A p \in ReadProcs :
         (txw[p] # NoWrite /\ txw[p].id = rd.id) => rd.rows[1] # txw[p].row

C16_CommittedChangesWhole ==
  /\ \A id \in Ids :
       (store[id] # NoRow /\ store'[id] # NoRow /\ store'[id] # store[id]) =>
         \E p \in ReadProcs :
           /\ pc[p] = "commit" /\ op[p].kind = "update" /\ op[p].id = id /\ ret'[p] = "ok"
           /\ store'[id] = txw[p].row
           /\ store'[id] = PatchedRecord(store[id], op[p].patch, store'[id].updated_at)
  /\ \A p \in ReadProcs :
       (Mutation(p) /\ Returning(p) /\ ret'[p] # "ok") => store' = store

C16_GetReadCommitted == [](C16_GetReturnsCommitted) /\ [][C16_CommittedChangesWhole]_vars

\* a Get was answered with the record as it was before, while an Update of
\* three fields of that record has its write buffered and not committed
C16_Witness ==
  \E p \in ReadProcs :
    /\ pc[p] = "commit" /\ op[p].kind = "update" /\ txw[p] # NoWrite
    /\ rd.kind = "get" /\ rd.err = "nil" /\ rd.id = op[p].id
    /\ rd.rows[1].description # txw[p].row.description
    /\ rd.rows[1].due_date # txw[p].row.due_date
    /\ rd.rows[1].completed # txw[p].row.completed

\* the fields of a filter that bind a parameter, in the order of their
\* branches, and the values they bind
FilterFields == <<"ID", "UserID", "Priority", "DueDate", "Completed">>

ColumnOf(field) ==
  CASE field = "ID" -> "id"
    [] field = "UserID" -> "user_id"
    [] field = "Priority" -> "priority"
    [] field = "DueDate" -> "due_date"
    [] field = "Completed" -> "completed"

Binds(f, field) == f[field].Defined /\ ~(field = "DueDate" /\ f[field].Value = Null)

RECURSIVE BoundValues(_, _)
BoundValues(f, k) ==
  IF k = 0 THEN <<>>
  ELSE IF Binds(f, FilterFields[k])
       THEN Append(BoundValues(f, k - 1), f[FilterFields[k]].Value)
       ELSE BoundValues(f, k - 1)

\* the positions of the predicates of a query that carry a placeholder
Placeholders(q) == {k \in 1..Len(q.where) : q.where[k].kind \in {"eq", "dateeq"}}

\* C17: filter builder.  For the filter of every answered list: after the leading TRUE
\* each set field contributes exactly one predicate, on its column, and each
\* unset field none, in the order ID, owner, priority, due-date, completed;
\* the bound arguments are the values of the set fields in that order;
\* placeholders are numbered 1, 2, ... in the order of their predicates with
\* no gap, and the number of arguments is the highest placeholder; a due-date
\* set to null contributes IS NULL with no placeholder and no argument; LIMIT
\* and OFFSET are emitted exactly when their value is greater than 0.
C17_FilterBuilder ==
  (rd.kind = "list" /\ rd.err = "nil") =>
    LET f == rd.filter
        q == BuildQuery(f)
        preds == SubSeq(q.where, 2, Len(q.where))
        setFields == {k \in 1..5 : f[FilterFields[k]].Defined}
    IN /\ q.where[1].kind = "true"
       /\ Len(preds) = Cardinality(setFields)
       /\ \A k \in 1..5 :
            Cardinality({n \in 1..Len(preds) : preds[n].col = ColumnOf(FilterFields[k])})
              = IF k \in setFields THEN 1 ELSE 0
       /\ \A m, n \in 1..Len(preds) :
            m < n => \E j, k \in 1..5 : /\ j < k
                                        /\ preds[m].col = ColumnOf(FilterFields[j])
                                        /\ preds[n].col = ColumnOf(FilterFields[k])
       /\ q.args = BoundValues(f, 5)
       /\ \A k \in Placeholders(q) :
            q.where[k].arg = Cardinality({j \in Placeholders(q) : j <= k})
       /\ Len(q.args) = Cardinality(Placeholders(q))
       /\ q.argIndex = Len(q.args) + 1
       /\ f.DueDate = Set(Null) =>
            /\ \E n \in 1..Len(preds) : preds[n] = [kind |-> "isnull", col |-> "due_date"]
            /\ Len(q.args) = Cardinality(setFields) - 1
       /\ q.limit.emitted = (f.Limit > 0) /\ (f.Limit > 0 => q.limit.n = f.Limit)
       /\ q.offset.emitted = (f.Offset > 0) /\ (f.Offset > 0 => q.offset.n = f.Offset)

\* a list filtered on ID, priority, a null due-date and completed, with a
\* limit and no offset, returned the one record that matches
C17_Witness ==
  /\ rd.kind = "list" /\ rd.err = "nil"
  /\ rd.filter.ID.Defined /\ ~rd.filter.UserID.Defined /\ rd.filter.Priority.Defined
  /\ rd.filter.DueDate = Set(Null) /\ rd.filter.Completed.Defined
  /\ rd.filter.Limit > 0 /\ rd.filter.Offset = 0
  /\ Len(BuildQuery(rd.filter).args) = 3
  /\ Len(rd.rows) = 1

\* ------------------------------------------------------------ properties of mutations beside reads
\* C12: Delete is terminal.  The commit of a successful Delete removes the
\* record; the record of an ID that was issued and has no record never
\* (re)appears; an Update or Delete whose locked read comes after the removal,
\* also one that was waiting for the row lock meanwhile, returns NotFound (a
\* storage error if the database failed) for either caller, so no call is ever
\* past its locked read of a removed record; and a Get of the ID returns
\* NotFound and no record.
C12_RemovedStaysRemoved ==
  /\ \A p \in Procs :
       (pc[p] = "commit" /\ op[p].kind = "delete" /\ Returning(p) /\ ret'[p] = "ok") =>
         store'[op[p].id] = NoRow
  /\ \A id \in Ids : (id <= nextId /\ store[id] = NoRow) => store'[id] = NoRow
  /\ \A p \in Procs :
       (pc[p] = "lock" /\ op[p].id <= nextId /\ store[op[p].id] = NoRow /\ pc'[p] # "lock") =>
         /\ Returning(p)
         /\ ret'[p] \in {"NotFound", "StorageFailure"}

C12_RemovedIsNotFound ==
  /\ \A p \in Procs : pc[p] \in {"write", "commit"} => store[op[p].id] # NoRow
  /\ (rd.kind = "get" /\ rd.err # "StorageFailure" /\ store[rd.id] = NoRow) =>
       (rd.err = "NotFound" /\ rd.rows = <<>>)

C12_DeleteIsTerminal == [](C12_RemovedIsNotFound) /\ [][C12_RemovedStaysRemoved]_vars

\* the one ID issued has no record although the clock was read again after
\* its creation (only an Update that had loaded the record does that): the
\* record was stored and then deleted; one worker returned success, the other
\* was told NotFound, and a Get of the ID was told NotFound
C12_Witness ==
  /\ nextId = 1 /\ store[1] = NoRow /\ now > 1
  /\ \E p, q \in Procs : p # q /\ ret[p] = "ok" /\ ret[q] = "NotFound"
  /\ rd.kind = "get" /\ rd.err = "NotFound" /\ rd.id = 1

\* another worker's call is past its locked read of the record of q's call
HeldByOther(q) ==
  \E p \in Procs : p # q /\ pc[p] \in {"write", "commit"} /\ op[p].id = op[q].id

\* C13: lock scope.  A row lock is held exactly by a call past its locked
\* read of that record, until the call returns.  A locked read can go ahead
\* (the database not failing) unless another call is past its locked read of
\* the same record, whatever locks are held on other records, and then it
\* cannot; a call holding its lock can always issue its write and commit; and
\* Get and GetAll can be answered in every state, whatever locks are held.
C13_LocksHeld ==
  /\ \A id \in Ids : lockHolder[id] # NoProc =>
       (pc[lockHolder[id]] \in {"write", "commit"} /\ op[lockHolder[id]].id = id)
  /\ \A q \in Procs :
       /\ (pc[q] = "lock" /\ ~HeldByOther(q)) =>
            ENABLED (GetTodoForUpdate(q) /\ ret'[q] # "StorageFailure")
       /\ (pc[q] = "lock" /\ HeldByOther(q)) =>
            ~ENABLED (GetTodoForUpdate(q) /\ ret'[q] # "StorageFailure")
       /\ pc[q] = "write" =>
            ENABLED ((ExecUpdate(q) \/ ExecDelete(q)) /\ ret'[q] # "StorageFailure")
       /\ pc[q] = "commit" => ENABLED (Commit(q) /\ ret'[q] = "ok")
  /\ \A caller \in Users, id \in Ids : ENABLED (Get(caller, id) /\ rd'.err # "StorageFailure")
  /\ \A caller \in Listers, filter \in FiltersMixed :
       ENABLED (GetAll(caller, filter) /\ rd'.err = "nil")

C13_LockSteps ==
  \A q \in Procs :
    /\ (pc[q] = "lock" /\ pc'[q] = "write") =>
         (lockHolder[op[q].id] = NoProc /\ lockHolder'[op[q].id] = q)
    /\ \A id \in Ids : (lockHolder[id] = q /\ lockHolder'[id] # q) =>
         (Returning(q) /\ lockHolder'[id] = NoProc)

C13_LockScope == [](C13_LocksHeld) /\ [][C13_LockSteps]_vars

\* the two workers hold the row locks of two different records, one with its
\* write buffered, and a Get of that record was just answered
C13_Witness ==
  \E p, q \in Procs :
    /\ p # q
    /\ pc[p] = "commit" /\ txw[p] # NoWrite /\ lockHolder[op[p].id] = p
    /\ pc[q] \in {"write", "commit"} /\ lockHolder[op[q].id] = q
    /\ op[p].id # op[q].id
    /\ rd.kind = "get" /\ rd.err = "nil" /\ rd.id = op[p].id

\* C14: Create stamps the record.  A successful Create stores one record in
\* a slot that was empty, under an ID no stored record has, owned by the
\* caller and not by the owner its input carried, with created-at equal to
\* updated-at equal to the reading of the clock, its other fields as given,
\* and touches no other record; a failed Create stores nothing.  Create
\* returns success or a storage error only (no ownership check), and takes
\* and waits for no row lock.
C14_CreateStep ==
  nextId' # nextId =>
    LET new == store'[nextId'] IN
      /\ lockHolder' = lockHolder /\ txw' = txw
      /\ \E p \in Procs : pc[p] = "idle" /\ pc'[p] = "idle"
                          /\ ret'[p] \in {"ok", "StorageFailure"}
      /\ (store' # store) =>
           /\ store[nextId'] = NoRow
           /\ store' = [store EXCEPT ![nextId'] = new]
           /\ new.id = nextId'
           /\ \A i \in Ids : store[i] # NoRow => store[i].id # new.id
           /\ new.user_id \in Creators
           /\ \A input \in NewTodosMixed : new.user_id # input.user_id
           /\ new.created_at = new.updated_at /\ new.created_at = now' /\ now' > now
           /\ \E input \in NewTodosMixed :
                /\ new.subject = input.subject /\ new.description = input.description
                /\ new.priority = input.priority /\ new.due_date = input.due_date
                /\ new.completed = input.completed

C14_CreatedRows ==
  /\ \A i, j \in Ids : (store[i] # NoRow /\ store[j] # NoRow /\ i # j) => store[i].id # store[j].id
  /\ \A i \in Ids : store[i] # NoRow =>
       (store[i].user_id \in Creators /\ store[i].created_at <= store[i].updated_at)
  /\ \A p \in Procs : pc[p] = "idle" =>
       \A caller \in Creators, input \in NewTodosMixed :
         (nextId < MaxIds /\ now + AwaitingClock < MaxTime) =>
           ENABLED (Create(p, caller, input) /\ ret'[p] = "ok")

C14_CreateStamps == [](C14_CreatedRows) /\ [][C14_CreateStep]_vars

\* a second record was just created, as stamped, while the other worker held
\* the row lock of the first with an Update buffered before that Create
C14_Witness ==
  /\ nextId = 2 /\ store[1] # NoRow /\ store[2] # NoRow
  /\ store[2].created_at = now /\ store[2].updated_at = now
  /\ store[2].user_id = "u1"
  /\ \E p \in Procs : /\ pc[p] = "commit" /\ txw[p] # NoWrite /\ lockHolder[1] = p
                      /\ op[p].kind = "update" /\ txw[p].row.updated_at < now

\* ------------------------------------------------------------ properties of the call protocol
\* C15: ownership check ordering.  A call that has not yet made its locked
\* read holds no record; PermissionDenied is returned only by a call that
\* holds the row lock, compares the owner of the record it loaded under that
\* lock (still the committed record) and has issued no write; and a write or
\* delete is issued only by a call that holds the row lock and whose caller
\* is the owner of the record loaded under it.
C15_NothingLoadedBeforeLock ==
  \A p \in Procs :
    /\ pc[p] \in {"idle", "lock"} => (todo[p] = NoRow /\ txw[p] = NoWrite)
    /\ pc[p] = "write" => (txw[p] = NoWrite /\ lockHolder[op[p].id] = p)

C15_CheckStep ==
  \A p \in Procs :
    /\ (Returning(p) /\ ret'[p] = "PermissionDenied") =>
         /\ pc[p] = "write"
         /\ lockHolder[op[p].id] = p
         /\ todo[p] = store[op[p].id]
         /\ todo[p].user_id # op[p].caller
         /\ txw[p] = NoWrite /\ store' = store
    /\ (txw'[p] # txw[p] /\ txw'[p] # NoWrite) =>
         /\ pc[p] = "write"
         /\ lockHolder[op[p].id] = p
         /\ todo[p] = store[op[p].id]
         /\ todo[p].user_id = op[p].caller
    /\ (pc[p] = "write" /\ pc'[p] # "write" /\ todo[p].user_id # op[p].caller) =>
         (Returning(p) /\ ret'[p] = "PermissionDenied")

C15_CheckAfterLockBeforeWrite == [](C15_NothingLoadedBeforeLock) /\ [][C15_CheckStep]_vars

\* one worker was refused with PermissionDenied and then the owner's call
\* took the lock of a record and buffered its write
C15_Witness ==
  \E p, q \in Procs :
    /\ p # q
    /\ ret[p] = "PermissionDenied" /\ pc[p] = "idle"
    /\ pc[q] = "commit" /\ txw[q] # NoWrite /\ lockHolder[op[q].id] = q
    /\ store[op[q].id].user_id = op[q].caller

\* C18: the zero-affected-rows outcome is unreachable.  While a call is past
\* its locked read, its statement WHERE id = $n affects exactly one row, so
\* no call that loaded its record returns NotFound: NotFound comes only from
\* the locked read itself.
C18_RowStillThere ==
  \A p \in Procs :
    pc[p] \in {"write", "commit"} => RowsAffected(store, op[p].id) = 1

C18_NotFoundOnlyFromRead ==
  \A p \in Procs :
    (Returning(p) /\ ret'[p] = "NotFound") =>
      (pc[p] = "lock" /\ RowsAffected(store, op[p].id) = 0)

C18_ZeroRowsUnreachable == [](C18_RowStillThere) /\ [][C18_NotFoundOnlyFromRead]_vars

\* a call has issued its write on a record while the owner's Delete of the
\* same record waits for the row lock
C18_Witness ==
  \E p, q \in Procs :
    /\ p # q
    /\ pc[p] = "commit" /\ txw[p] # NoWrite
    /\ pc[q] = "lock" /\ op[q].kind = "delete" /\ op[q].id = op[p].id
    /\ store[op[q].id] # NoRow /\ store[op[q].id].user_id = op[q].caller

\* the patchable fields of a record and the patch field that sets each
Patchable ==
  {<<"subject", "Subject">>, <<"description", "Description">>, <<"priority", "Priority">>,
   <<"due_date", "DueDate">>, <<"completed", "Completed">>}

\* C19: concurrent Updates of disjoint fields both survive.  The row an
\* Update has buffered, and the row its commit stores, carry the patch value
\* in every field the patch sets and, in every field it does not set, the
\* value of the committed record at that moment (whoever committed it); so a
\* subject or a completed flag written by one Update is still stored after
\* any other Update that does not set that field, in either lock order.
C19_BufferedKeepsOthers ==
  \A p \in Procs :
    (pc[p] = "commit" /\ op[p].kind = "update" /\ txw[p] # NoWrite) =>
      \A c \in Patchable :
        txw[p].row[c[1]] = IF op[p].patch[c[2]].Defined THEN op[p].patch[c[2]].Value
                           ELSE store[op[p].id][c[1]]

C19_CommitKeepsOthers ==
  \A id \in Ids :
    (store[id] # NoRow /\ store'[id] # NoRow /\ store'[id] # store[id]) =>
      /\ \E p \in Procs :
           /\ pc[p] = "commit" /\ op[p].kind = "update" /\ op[p].id = id /\ ret'[p] = "ok"
           /\ \A c \in Patchable :
                store'[id][c[1]] = IF op[p].patch[c[2]].Defined THEN op[p].patch[c[2]].Value
                                   ELSE store[id][c[1]]
      /\ store[id].subject = 2 => store'[id].subject = 2
      /\ store[id].completed => store'[id].completed

C19_DisjointUpdatesSurvive == [](C19_BufferedKeepsOthers) /\ [][C19_CommitKeepsOthers]_vars

\* both workers returned success and a record carries the subject of one
\* one-field patch and the completed flag of the other, its other fields as
\* created, after exactly two stamps of updated-at
C19_Witness ==
  \E id \in Ids :
    /\ store[id] # NoRow
    /\ store[id].subject = 2 /\ store[id].completed = TRUE
    /\ store[id].description = 1 /\ store[id].priority = 1 /\ store[id].due_date = 0
    /\ store[id].updated_at = store[id].created_at + 2
    /\ \A p \in Procs : ret[p] = "ok" /\ pc[p] = "idle"

\* C20: progress.  A worker holds the lock of at most one row, and only
\* while its call is past its locked read; whenever some call is in progress
\* some call can take a step that the database answers (no deadlock); and
\* under fair scheduling every call in progress returns, with success or an
\* error, the row lock a call waits for being released before.
C20_OneLockNoDeadlock ==
  /\ \A p \in Procs :
       /\ Cardinality({id \in Ids : lockHolder[id] = p}) <= 1
       /\ pc[p] \in {"idle", "lock"} => \A id \in Ids : lockHolder[id] # p
  /\ (\E p \in Procs : pc[p] # "idle") => \E p \in Procs : ENABLED Answered(p)

C20_Progress ==
  /\ [](C20_OneLockNoDeadlock)
  /\ \A p \in Procs : (pc[p] # "idle") ~> (pc[p] = "idle")
  /\ \A p \in Procs : (pc[p] = "lock" /\ HeldByOther(p)) ~> (pc[p] # "lock" \/ ~HeldByOther(p))

\* a call waits at its locked read for the row lock that the other worker's
\* call holds with its write buffered
C20_Witness ==
  \E p, q \in Procs :
    /\ p # q
    /\ pc[p] = "lock" /\ lockHolder[op[p].id] = q
    /\ pc[q] = "commit" /\ txw[q] # NoWrite
    /\ ~ENABLED Answered(p)
====
